---- MODULE Spec2Model ----
(***************************************************************************)
(* A model of the watch session of sink (internal/watcher/service.go) and  *)
(* of the selection policy it consults (internal/filter).                  *)
(*                                                                         *)
(* Strings are sequences of one-character strings, so that path           *)
(* operations (Join, Base, Rel, HasPrefix) are computed on characters as   *)
(* the Go code computes them.                                              *)
(***************************************************************************)
EXTENDS Integers, Sequences, FiniteSets, TLC

(***************************************************************************)
(* Bounds of the model.                                                    *)
(***************************************************************************)
\* longest content of the fsnotify event channel
MaxQueue == 2
\* number of filesystem operations the environment performs
MaxOps == 2
\* number of writes the environment performs in the timed specification
MaxEvents == 4
\* last instant of the discrete clock
MaxTime == 10
\* Config.DebounceTimeout, in clock units (the --debounce flag, default 500 ms)
DebounceTimeout == 2

(***************************************************************************)
(* Strings and paths (path/filepath, strings).                             *)
(***************************************************************************)
Separator == "/"

HasPrefix(s, prefix) ==
    /\ Len(prefix) <= Len(s)
    /\ SubSeq(s, 1, Len(prefix)) = prefix

\* index of the last separator of p, 0 when there is none
LastSep(p) ==
    LET idx == {i \in 1..Len(p) : p[i] = Separator}
    IN  IF idx = {} THEN 0 ELSE CHOOSE i \in idx : \A j \in idx : j <= i

\* filepath.Base on a clean path
Base(p) == SubSeq(p, LastSep(p) + 1, Len(p))

\* filepath.Dir on a clean absolute path below the root
Dir(p) == SubSeq(p, 1, LastSep(p) - 1)

\* filepath.Join(dir, name)
Join(dir, name) == dir \o <<Separator>> \o name

\* filepath.Rel(root, path) for a path at or below root
Rel(root, path) ==
    IF path = root THEN <<".">>
    ELSE SubSeq(path, Len(root) + 2, Len(path))

\* PathParts: the segments of a relative path, in order; none for "."
RECURSIVE PathParts(_)
PathParts(p) ==
    IF p = <<".">> \/ p = <<>> THEN <<>>
    ELSE IF LastSep(p) = 0 THEN <<p>>
    ELSE Append(PathParts(SubSeq(p, 1, LastSep(p) - 1)), Base(p))

\* strings.ToLower, on the characters the model uses
ToLowerChar(c) ==
    CASE c = "A" -> "a"
      [] c = "B" -> "b"
      [] c = "F" -> "f"
      [] c = "G" -> "g"
      [] OTHER -> c

ToLower(s) == [i \in 1..Len(s) |-> ToLowerChar(s[i])]

\* byte order of the characters the model uses (for the lexical walk order)
CharCode(c) ==
    CASE c = "#" -> 35
      [] c = "." -> 46
      [] c = "/" -> 47
      [] c = "A" -> 65
      [] c = "B" -> 66
      [] c = "F" -> 70
      [] c = "G" -> 71
      [] c = "a" -> 97
      [] c = "b" -> 98
      [] c = "c" -> 99
      [] c = "f" -> 102
      [] c = "g" -> 103
      [] c = "h" -> 104
      [] c = "i" -> 105
      [] c = "o" -> 111
      [] c = "r" -> 114
      [] c = "t" -> 116
      [] c = "x" -> 120
      [] c = "~" -> 126
      [] OTHER -> 127

\* s sorts strictly before t (Go string comparison)
RECURSIVE StrLess(_, _)
StrLess(s, t) ==
    IF t = <<>> THEN FALSE
    ELSE IF s = <<>> THEN TRUE
    ELSE IF Head(s) = Head(t) THEN StrLess(Tail(s), Tail(t))
    ELSE CharCode(Head(s)) < CharCode(Head(t))

(***************************************************************************)
(* The paths of the model.                                                 *)
(***************************************************************************)
RootPath == <<"/", "r">>
GitName == <<".", "g", "i", "t">>
\* stands for "sink-config.yaml"
ConfigName == <<"c">>

DirA == Join(RootPath, <<"a">>)
DirAB == Join(RootPath, <<"a", "b">>)
DirA_B == Join(DirA, <<"b">>)
DirGit == Join(RootPath, GitName)
FileF == Join(RootPath, <<"f">>)
FileConfig == Join(RootPath, ConfigName)
DirA_Git == Join(DirA, GitName)
FileGit_H == Join(DirGit, <<"h">>)
FileA_F == Join(DirA, <<"f">>)
FileA_Git_H == Join(DirA_Git, <<"h">>)
FileX == Join(RootPath, <<"x">>)
\* the .gitignore file of the root
FileIgnore == Join(RootPath, <<".", "g", "i", "t", "i", "g", "n", "o", "r", "e">>)
\* an editor's backup of /r/f and its auto-save file
FileBak == Join(RootPath, <<"f", "~">>)
FileAuto == Join(RootPath, <<"#", "f", "#">>)

DirPaths == {RootPath, DirA, DirAB, DirA_B, DirGit, DirA_Git}
FilePaths == {FileF, FileConfig, FileGit_H}
\* the paths the environment of a watch session changes
Paths == DirPaths \cup FilePaths

\* the paths of tree strictly below dir
Below(tree, dir) == {p \in tree : HasPrefix(p, dir \o <<Separator>>)}

\* the entries of directory dir in tree
Entries(tree, dir) == {p \in tree : p # RootPath /\ Dir(p) = dir}

(***************************************************************************)
(* Pattern matching (internal/filter/patterns.go).                         *)
(***************************************************************************)
\* the patterns that match the empty name although they hold a separator
\* (doublestar's isZeroLengthPattern)
ZeroLength == {<<"/", "*", "*">>, <<"/", "*", "*", "/">>}

\* doublestar's matcher for patterns of literal characters, "*" and "**": a
\* star matches any run of characters that holds no separator; "**" that
\* begins a segment and ends the pattern matches all that is left; "**/"
\* that begins a segment matches zero or more whole segments; any other
\* "**" is a star
RECURSIVE doMatch(_, _, _)
doMatch(pattern, name, startOfSegment) ==
    IF pattern = <<>> THEN name = <<>>
    ELSE IF name = <<>> /\ pattern \in ZeroLength THEN TRUE
    ELSE IF Head(pattern) = "*"
    THEN IF Len(pattern) >= 2 /\ pattern[2] = "*" /\ startOfSegment
            /\ Len(pattern) = 2
         THEN TRUE
         ELSE IF Len(pattern) >= 3 /\ pattern[2] = "*" /\ startOfSegment
                 /\ pattern[3] = Separator
         THEN \/ doMatch(SubSeq(pattern, 4, Len(pattern)), name, TRUE)
              \/ \E i \in 1..Len(name) :
                    /\ name[i] = Separator
                    /\ doMatch(SubSeq(pattern, 4, Len(pattern)),
                               SubSeq(name, i + 1, Len(name)), TRUE)
         ELSE \/ doMatch(IF Len(pattern) >= 2 /\ pattern[2] = "*"
                         THEN SubSeq(pattern, 3, Len(pattern))
                         ELSE Tail(pattern),
                         name, FALSE)
              \/ /\ name # <<>>
                 /\ Head(name) # Separator
                 /\ doMatch(pattern, Tail(name), FALSE)
    ELSE /\ name # <<>>
         /\ Head(name) = Head(pattern)
         /\ doMatch(Tail(pattern), Tail(name), Head(pattern) = Separator)

\* a matcher of literal characters and stars alone (as path/filepath's
\* Match), for which "**" is two stars
RECURSIVE StarMatch(_, _)
StarMatch(pattern, name) ==
    IF pattern = <<>> THEN name = <<>>
    ELSE IF Head(pattern) = "*"
         THEN \/ StarMatch(Tail(pattern), name)
              \/ /\ name # <<>>
                 /\ Head(name) # Separator
                 /\ StarMatch(pattern, Tail(name))
    ELSE /\ name # <<>>
         /\ Head(name) = Head(pattern)
         /\ StarMatch(Tail(pattern), Tail(name))

\* GlobMatch by a matcher that knows no recursive wildcard
GlobMatch_Star(pattern, name) == StarMatch(pattern, name)

\* doublestar.Match(pattern, name)
GlobMatch(pattern, name) == doMatch(pattern, name, TRUE)

\* MatchesOne that matches every pattern against the whole path
MatchesOne_WholePath(path, pattern, caseSensitive) ==
    GlobMatch(IF caseSensitive THEN pattern ELSE ToLower(pattern), path)

\* MatchesOne that leaves the case of the pattern as it is
MatchesOne_NoLower(path, pattern, caseSensitive) ==
    GlobMatch(pattern,
              IF \E i \in 1..Len(pattern) : pattern[i] = Separator
              THEN path ELSE Base(path))

\* one iteration of the loop of MatchesAny: pattern against the normalized path
MatchesOne(path, pattern, caseSensitive) ==
    LET pat == IF caseSensitive THEN pattern ELSE ToLower(pattern)
        matchPath == IF \E i \in 1..Len(pat) : pat[i] = Separator
                     THEN path
                     ELSE Base(path)
    IN  GlobMatch(pat, matchPath)

MatchesAny(path, patterns, caseSensitive) ==
    IF Len(patterns) = 0 THEN TRUE
    ELSE LET p == IF caseSensitive THEN path ELSE ToLower(path)
         IN  \E i \in 1..Len(patterns) : MatchesOne(p, patterns[i], caseSensitive)

(***************************************************************************)
(* Ignore rules (internal/filter/gitignore.go, over go-git's matcher).     *)
(* A rule is [pattern, dirOnly, inclusion]: a pattern without separator,   *)
(* matched against every segment of the path.                              *)
(***************************************************************************)
\* does rule match the segments of a path (go-git simpleNameMatch)
RuleMatches(rule, parts, isDir) ==
    LET hits == {i \in 1..Len(parts) : GlobMatch(rule.pattern, parts[i])}
    IN  /\ hits # {}
        /\ LET first == CHOOSE i \in hits : \A j \in hits : i <= j
           IN  ~(rule.dirOnly /\ ~isDir /\ first = Len(parts))

\* gitignore.Matcher.Match: the last rule that matches decides
MatcherMatch(rules, parts, isDir) ==
    LET hits == {i \in 1..Len(rules) : RuleMatches(rules[i], parts, isDir)}
    IN  /\ hits # {}
        /\ LET last == CHOOSE i \in hits : \A j \in hits : j <= i
           IN  ~rules[last].inclusion

\* GitignoreFilter.IsIgnored: [err, ignored]; Stat fails on a missing path
IsIgnored(tree, rules, relPath) ==
    LET path == IF relPath = <<".">> THEN RootPath ELSE Join(RootPath, relPath)
    IN  IF path \notin tree
        THEN [err |-> TRUE, ignored |-> FALSE]
        ELSE [err |-> FALSE,
              ignored |-> MatcherMatch(rules, PathParts(relPath), path \in DirPaths)]

(***************************************************************************)
(* Event classification and the directory-selection policy                 *)
(* (internal/watcher/service.go).                                          *)
(***************************************************************************)
\* the files whose first 512 bytes hold a NUL byte
BinaryFiles == {FileX}

\* utils.IsBinaryFile: a content sniff; a directory or a missing path has
\* no content to sniff
IsBinaryFile(tree, path) == path \in tree /\ path \in BinaryFiles

isTemporaryFile(path) ==
    LET base == Base(path)
    IN  \/ base = <<".", "D", "S", "_", "S", "t", "o", "r", "e">>
        \/ base = <<"T", "h", "u", "m", "b", "s", ".", "d", "b">>
        \/ base[1] = "."
        \/ base[Len(base)] = "~"
        \/ (base[1] = "#" /\ base[Len(base)] = "#")

\* shouldProcessFile without the sniff of the content
shouldProcessFile_NoBinary(tree, cfg, rules, path) ==
    LET relPath == Rel(RootPath, path)
        ig == IsIgnored(tree, rules, relPath)
    IN  IF ig.err THEN FALSE
        ELSE IF ig.ignored THEN FALSE
        ELSE IF /\ Len(cfg.ExcludePatterns) > 0
                /\ MatchesAny(relPath, cfg.ExcludePatterns, cfg.CaseSensitive)
             THEN FALSE
        ELSE IF /\ Len(cfg.FilterPatterns) > 0
                /\ ~MatchesAny(relPath, cfg.FilterPatterns, cfg.CaseSensitive)
             THEN FALSE
        ELSE TRUE

\* shouldProcessFile that asks the exclude patterns alone
shouldProcessFile_NoFilter(tree, cfg, rules, path) ==
    LET relPath == Rel(RootPath, path)
        ig == IsIgnored(tree, rules, relPath)
    IN  IF IsBinaryFile(tree, path) THEN FALSE
        ELSE IF ig.err THEN FALSE
        ELSE IF ig.ignored THEN FALSE
        ELSE ~(/\ Len(cfg.ExcludePatterns) > 0
               /\ MatchesAny(relPath, cfg.ExcludePatterns, cfg.CaseSensitive))

shouldProcessFile(tree, cfg, rules, path) ==
    LET relPath == Rel(RootPath, path)
        ig == IsIgnored(tree, rules, relPath)
    IN  IF IsBinaryFile(tree, path) THEN FALSE
        ELSE IF ig.err THEN FALSE
        ELSE IF ig.ignored THEN FALSE
        ELSE IF /\ Len(cfg.ExcludePatterns) > 0
                /\ MatchesAny(relPath, cfg.ExcludePatterns, cfg.CaseSensitive)
             THEN FALSE
        ELSE IF /\ Len(cfg.FilterPatterns) > 0
                /\ ~MatchesAny(relPath, cfg.FilterPatterns, cfg.CaseSensitive)
             THEN FALSE
        ELSE TRUE

\* shouldWatchDirectory that asks MatchesAny whatever the length of the list
shouldWatchDirectory_NoGuard(tree, cfg, rules, path) ==
    LET relPath == Rel(RootPath, path)
        ig == IsIgnored(tree, rules, relPath)
    IN  IF relPath = <<".">> THEN TRUE
        ELSE IF ig.err THEN FALSE
        ELSE IF ig.ignored THEN FALSE
        ELSE ~MatchesAny(relPath, cfg.ExcludePatterns, cfg.CaseSensitive)

shouldWatchDirectory(tree, cfg, rules, path) ==
    LET relPath == Rel(RootPath, path)
        ig == IsIgnored(tree, rules, relPath)
    IN  IF relPath = <<".">> THEN TRUE
        ELSE IF ig.err THEN FALSE
        ELSE IF ig.ignored THEN FALSE
        ELSE IF /\ Len(cfg.ExcludePatterns) > 0
                /\ MatchesAny(relPath, cfg.ExcludePatterns, cfg.CaseSensitive)
             THEN FALSE
        ELSE TRUE

\* the paths of S in lexical order of their names (filepath.Walk reads the
\* names of a directory sorted)
RECURSIVE SortedByName(_)
SortedByName(S) ==
    IF S = {} THEN <<>>
    ELSE LET m == CHOOSE p \in S : \A q \in S \ {p} : StrLess(Base(p), Base(q))
         IN  <<m>> \o SortedByName(S \ {m})

\* Registers without the test of the name of the metadata directory
Registers_WithGit(tree, cfg, rules, path) ==
    /\ path \in DirPaths
    /\ shouldWatchDirectory(tree, cfg, rules, path)

\* the callback of addWatchRecursive on path: does it register path (and
\* let the walk descend), or return nil for a file or SkipDir
Registers(tree, cfg, rules, path) ==
    /\ path \in DirPaths
    /\ Base(path) # GitName
    /\ shouldWatchDirectory(tree, cfg, rules, path)

\* filepath.Walk over the paths still to visit, in order: the directories on
\* which the callback calls watcher.Add
RECURSIVE WalkList(_, _, _, _)
WalkList(tree, cfg, rules, pending) ==
    IF pending = <<>> THEN <<>>
    ELSE IF Registers(tree, cfg, rules, Head(pending))
    THEN <<Head(pending)>> \o
         WalkList(tree, cfg, rules,
                  SortedByName(Entries(tree, Head(pending))) \o Tail(pending))
    ELSE WalkList(tree, cfg, rules, Tail(pending))

WalkDirs(tree, cfg, rules, root) == WalkList(tree, cfg, rules, <<root>>)

\* the elements of a sequence
Range(seq) == {seq[i] : i \in 1..Len(seq)}

(***************************************************************************)
(* Configuration (internal/config).                                        *)
(***************************************************************************)
\* config.DefaultConfig, restricted to the fields the watch session reads
DefaultConfig ==
    [FilterPatterns |-> <<>>, ExcludePatterns |-> <<>>, CaseSensitive |-> FALSE]

PatternAStar == <<"a", "*">>
PatternAB == <<"a", "b">>

\* the configurations a command line or a configuration file can give
Configs ==
    {[FilterPatterns |-> f, ExcludePatterns |-> x, CaseSensitive |-> FALSE] :
        f \in {<<>>, <<PatternAStar>>}, x \in {<<>>, <<PatternAB>>}}

\* content of a configuration file that does not parse
Malformed == [state |-> "malformed", config |-> DefaultConfig]
\* content of a configuration file that does not exist
NoFile == [state |-> "none", config |-> DefaultConfig]

\* what the configuration file can hold
DiskContents ==
    {[state |-> "ok", config |-> c] :
        c \in {d \in Configs : d.FilterPatterns = <<>>}}
        \cup {Malformed}

\* Config.merge: only non-zero values of other override
merge(c, other) ==
    [FilterPatterns |-> IF Len(other.FilterPatterns) > 0
                        THEN other.FilterPatterns ELSE c.FilterPatterns,
     ExcludePatterns |-> IF Len(other.ExcludePatterns) > 0
                         THEN other.ExcludePatterns ELSE c.ExcludePatterns,
     CaseSensitive |-> IF other.CaseSensitive THEN TRUE ELSE c.CaseSensitive]

\* loadConfigFile: [err, config] for the content of the file
loadConfigFile(content) ==
    IF content.state # "ok"
    THEN [err |-> TRUE, config |-> DefaultConfig]
    ELSE [err |-> FALSE, config |-> content.config]

\* LoadConfig(cmdConfigPath): the system and the user configuration are
\* absent; the local one is sink-config.yaml of the working directory, the
\* watch root. explicit tells whether cmdConfigPath is non-empty.
LoadConfig(content, explicit) ==
    LET local == loadConfigFile(content)
        c3 == IF local.err THEN DefaultConfig
              ELSE merge(DefaultConfig, local.config)
    IN  IF explicit /\ local.err
        THEN [err |-> TRUE, config |-> DefaultConfig]
        ELSE [err |-> FALSE,
              config |-> IF explicit THEN merge(c3, local.config) ELSE c3]

(***************************************************************************)
(* One-shot traversal (internal/processor, FileProcessor) and the ignore   *)
(* rules it and the watch session compile (filter.NewFilter).              *)
(***************************************************************************)
\* NewFilter: the patterns of the local file, then the global ones appended,
\* then the system ones appended
NewFilter(local, global, system) == local \o global \o system

\* a failure of the file system met by the walk at one path: "entry" (WalkDir
\* hands the callback an error), "stat" (fs.Stat fails, as on a dangling
\* link) or "read" (Open or ReadAll fails)
NoFault == [at |-> <<>>, kind |-> "none"]
FaultKinds == {"entry", "stat", "read"}
Faults(tree) ==
    {NoFault} \cup {[at |-> p, kind |-> k] : p \in tree, k \in FaultKinds}
FaultAt(fault, path, kind) == fault.at = path /\ fault.kind = kind

\* GitignoreFilter.IsIgnored as the walk meets it
IsIgnoredAt(tree, rules, fault, path) ==
    IF FaultAt(fault, path, "stat")
    THEN [err |-> TRUE, ignored |-> FALSE]
    ELSE IsIgnored(tree, rules, Rel(RootPath, path))

\* FileProcessor.shouldProcessFile without the exclude patterns
FileProcessor_shouldProcessFile_NoExclude(tree, cfg, rules, fault, path) ==
    IF IsBinaryFile(tree, path) THEN FALSE
    ELSE IF \/ IsIgnoredAt(tree, rules, fault, path).err
            \/ IsIgnoredAt(tree, rules, fault, path).ignored
    THEN FALSE
    ELSE IF Len(cfg.FilterPatterns) = 0 THEN TRUE
    ELSE MatchesAny(Rel(RootPath, path), cfg.FilterPatterns, cfg.CaseSensitive)

\* FileProcessor.shouldProcessFile
FileProcessor_shouldProcessFile(tree, cfg, rules, fault, path) ==
    IF IsBinaryFile(tree, path) THEN FALSE
    ELSE IF \/ IsIgnoredAt(tree, rules, fault, path).err
            \/ IsIgnoredAt(tree, rules, fault, path).ignored
    THEN FALSE
    ELSE IF Len(cfg.FilterPatterns) = 0
    THEN IF Len(cfg.ExcludePatterns) > 0
         THEN ~MatchesAny(Rel(RootPath, path), cfg.ExcludePatterns,
                          cfg.CaseSensitive)
         ELSE TRUE
    ELSE IF ~MatchesAny(Rel(RootPath, path), cfg.FilterPatterns,
                        cfg.CaseSensitive)
    THEN FALSE
    ELSE IF Len(cfg.ExcludePatterns) > 0
    THEN ~MatchesAny(Rel(RootPath, path), cfg.ExcludePatterns,
                     cfg.CaseSensitive)
    ELSE TRUE

\* FileProcessor.processFile on a file that passed: "ok" or "error"
processFile(fault, path) ==
    IF FaultAt(fault, path, "stat") \/ FaultAt(fault, path, "read")
    THEN "error" ELSE "ok"

\* visit that descends into every directory but the metadata directory
visit_NoPrune(tree, cfg, rules, fault, path) ==
    IF FaultAt(fault, path, "entry") THEN "error"
    ELSE IF path \in DirPaths
    THEN IF Base(path) = GitName THEN "SkipDir" ELSE "descend"
    ELSE IF ~FileProcessor_shouldProcessFile(tree, cfg, rules, fault, path)
    THEN "skip"
    ELSE IF processFile(fault, path) = "error" THEN "error"
    ELSE "append"

\* the callback Process hands to filepath.WalkDir, on path: "error",
\* "SkipDir", "descend", "skip" (nil for a file left out) or "append"
visit(tree, cfg, rules, fault, path) ==
    IF FaultAt(fault, path, "entry") THEN "error"
    ELSE IF path \in DirPaths
    THEN IF Base(path) = GitName THEN "SkipDir"
         ELSE IF IsIgnoredAt(tree, rules, fault, path).err THEN "error"
         ELSE IF IsIgnoredAt(tree, rules, fault, path).ignored THEN "SkipDir"
         ELSE IF /\ Len(cfg.ExcludePatterns) > 0
                 /\ MatchesAny(Rel(RootPath, path), cfg.ExcludePatterns,
                               cfg.CaseSensitive)
         THEN "SkipDir"
         ELSE "descend"
    ELSE IF ~FileProcessor_shouldProcessFile(tree, cfg, rules, fault, path)
    THEN "skip"
    ELSE IF processFile(fault, path) = "error" THEN "error"
    ELSE "append"

\* filepath.WalkDir over the paths still to visit, in lexical order:
\* [files, err, seen], with no files when the walk returns an error
RECURSIVE ProcessList(_, _, _, _, _, _, _)
ProcessList(tree, cfg, rules, fault, pending, files, seen) ==
    IF pending = <<>>
    THEN [files |-> files, err |-> FALSE, seen |-> seen]
    ELSE IF visit(tree, cfg, rules, fault, Head(pending)) = "error"
    THEN [files |-> <<>>, err |-> TRUE, seen |-> seen \cup {Head(pending)}]
    ELSE ProcessList(tree, cfg, rules, fault,
            IF visit(tree, cfg, rules, fault, Head(pending)) = "descend"
            THEN SortedByName(Entries(tree, Head(pending))) \o Tail(pending)
            ELSE Tail(pending),
            IF visit(tree, cfg, rules, fault, Head(pending)) = "append"
            THEN Append(files, Head(pending))
            ELSE files,
            seen \cup {Head(pending)})

\* FileProcessor.Process
Process(tree, cfg, rules, fault) ==
    ProcessList(tree, cfg, rules, fault, <<RootPath>>, <<>>, {})

\* generator.RunGeneration: what it returns when the walk meets fault
RunGeneration(tree, cfg, rules, fault) ==
    IF Process(tree, cfg, rules, fault).err THEN "error" ELSE "nil"

(***************************************************************************)
(* The state of a watch session.                                           *)
(***************************************************************************)
VARIABLES
    fs,          \* the paths that exist on disk
    diskConfig,  \* the content of the configuration file on disk
    config,      \* Service.config.RepoConfig
    gitignorer,  \* Service.gitignorer: the compiled ignore rules
    watched,     \* Service.watched: path -> dir flag
    watcher,     \* the watch list of the fsnotify watcher
    configPath,  \* Service.configPath, <<>> when there is no such file
    reloading,   \* Service.reloading
    Events,      \* the content of watcher.Events
    err,         \* what the last call of the loop returned: "nil" or "error"
    loop,        \* Watch: "setup", "running" or "exited"
    debouncer,   \* Service.debouncer: [active, when]
    debouncerC,  \* number of values in the channel debouncer.C (0 or 1)
    waiting,     \* goroutines of triggerRegeneration blocked on debouncer.C
    woken,       \* goroutines that received and are about to call Generate
    now,         \* the clock
    triggered,   \* the instants of the calls of triggerRegeneration
    generated,   \* the instants of the calls of Generate
    nOps,        \* operations of the environment so far
    faulted,     \* a call of watcher.Add has failed for want of resources
    handled,     \* the last event handled: [Name, Op, route, before, mu]
    Errors,      \* the content of watcher.Errors
    ctx,         \* the context of Watch: "live" or "done"
    chans,       \* the channels of the watcher: "open" or "closed"
    results,     \* what the calls of Generate returned: "nil" or "error"
    proc,        \* the last run of FileProcessor.Process and its inputs
    call,        \* the last call of a selection function, with its result
    diskIgnore   \* the rules of the .gitignore file of the root, on disk

fsVars == <<fs, diskConfig, nOps, faulted>>
treeVars == <<config, watched, watcher, reloading>>
timerVars == <<debouncer, debouncerC, waiting, triggered>>
runVars == <<woken, generated, results>>
loopVars == <<Errors, ctx, chans>>
vars == <<fs, diskConfig, config, gitignorer, watched, watcher, configPath,
          reloading, Events, err, loop, debouncer, debouncerC, waiting, woken,
          now, triggered, generated, nOps, faulted, handled, Errors, ctx,
          chans, results, proc, call, diskIgnore>>
outerVars == <<proc, call, diskIgnore>>

NoWatches == [p \in {} |-> TRUE]

\* the ignore rules a repository can start with
RuleB == [pattern |-> <<"b">>, dirOnly |-> FALSE, inclusion |-> FALSE]
IgnoreFiles == {<<>>, <<RuleB>>}
RuleSets == {NewFilter(local, <<>>, <<>>) : local \in IgnoreFiles}

\* the trees a session can start on
Tree1 == {RootPath, DirA, DirA_B, DirAB, DirGit, FileGit_H, FileF}
Tree2 == {RootPath, DirA, DirAB, DirGit, FileGit_H, FileF}
InitTrees == {Tree1, Tree2, Tree1 \cup {FileConfig}, Tree2 \cup {FileConfig}}

\* no call of a selection function yet
NoCall ==
    [fn |-> "none", path |-> <<>>, patterns |-> <<>>, caseSensitive |-> FALSE,
     result |-> FALSE, other |-> FALSE]

NoEvent ==
    [Name |-> <<>>, Op |-> {}, route |-> "none", before |-> {}, mu |-> "none"]

\* no run of Process yet, on ignore rules read from the three sources
NoRun(local, global, system) ==
    [state |-> "idle", local |-> local, global |-> global, system |-> system,
     fault |-> NoFault, files |-> <<>>, err |-> FALSE, hit |-> FALSE]

\* the trees a one-shot generation can run on
TreeP1 == {RootPath, DirA, DirA_B, DirAB, DirGit, DirA_Git, FileF, FileX,
           FileA_F, FileGit_H, FileA_Git_H}
TreeP2 == {RootPath, DirA, DirGit, FileA_F, FileGit_H}
ProcTrees == {TreeP1, TreeP2}

PatternF == <<"f">>
PatternA == <<"a">>
PatternStar == <<"*">>
ProcConfigs ==
    {[FilterPatterns |-> f, ExcludePatterns |-> x, CaseSensitive |-> FALSE] :
        f \in {<<>>, <<PatternF>>, <<PatternAStar>>},
        x \in {<<>>, <<PatternA>>, <<PatternStar>>}}

\* the rules the three ignore files can hold: "a", "a/" and "!f" in the
\* local one, "f" in the others
RuleA == [pattern |-> <<"a">>, dirOnly |-> FALSE, inclusion |-> FALSE]
RuleADir == [pattern |-> <<"a">>, dirOnly |-> TRUE, inclusion |-> FALSE]
RuleNotF == [pattern |-> <<"f">>, dirOnly |-> FALSE, inclusion |-> TRUE]
RuleF == [pattern |-> <<"f">>, dirOnly |-> FALSE, inclusion |-> FALSE]
LocalRules == {<<>>, <<RuleA>>, <<RuleADir, RuleNotF>>, <<RuleNotF>>}
GlobalRules == {<<>>, <<RuleF>>}
SystemRules == {<<>>, <<RuleF>>}

\* the fields NewService sets whatever the tree and the configuration
InitSession ==
    /\ watched = NoWatches
    /\ watcher = {}
    /\ configPath = IF FileConfig \in fs THEN FileConfig ELSE <<>>
    /\ reloading = FALSE
    /\ Events = <<>>
    /\ err = "nil"
    /\ loop = "setup"
    /\ debouncer = [active |-> TRUE, when |-> 0]
    /\ debouncerC = 0
    /\ waiting = 0
    /\ woken = 0
    /\ now = 0
    /\ triggered = <<>>
    /\ generated = <<>>
    /\ nOps = 0
    /\ faulted = FALSE
    /\ handled = NoEvent
    /\ Errors = <<>>
    /\ ctx = "live"
    /\ chans = "open"
    /\ results = <<>>

\* NewService, called by the watch command with the configuration it loaded
InitOn(trees) ==
    /\ fs \in trees
    /\ diskConfig \in IF FileConfig \in fs THEN DiskContents ELSE {NoFile}
    /\ config \in Configs
    /\ diskIgnore \in IgnoreFiles
    /\ gitignorer = NewFilter(diskIgnore, <<>>, <<>>)
    /\ proc = NoRun(diskIgnore, <<>>, <<>>)
    /\ call = NoCall
    /\ InitSession

Init == InitOn(InitTrees)

\* a FileProcessor built by NewFileProcessor for a one-shot generation
InitProcess ==
    /\ fs \in ProcTrees
    /\ diskConfig = NoFile
    /\ config \in ProcConfigs
    /\ \E local \in LocalRules, global \in GlobalRules, system \in SystemRules :
          /\ diskIgnore = local
          /\ gitignorer = NewFilter(local, global, system)
          /\ proc = NoRun(local, global, system)
    /\ call = NoCall
    /\ InitSession

(***************************************************************************)
(* The watch tree (internal/watcher/service.go).                           *)
(***************************************************************************)
\* w after s.watched[path] = &watchedPath{path, dir} for every path of S
WithWatches(w, S, dir) ==
    [p \in DOMAIN w \cup S |-> IF p \in S THEN dir ELSE w[p]]

\* the outcome of a walk that registers dirs in order and whose failAt-th
\* call of watcher.Add fails (failAt = 0, or past the walk: none fails)
WalkResult(dirs, failAt) ==
    [added |-> {dirs[i] : i \in 1..(IF failAt > 0 /\ failAt <= Len(dirs)
                                    THEN failAt - 1 ELSE Len(dirs))},
     err |-> failAt > 0 /\ failAt <= Len(dirs),
     n |-> Len(dirs)]

\* addWatchRecursive(root): the directories registered, and the error
addWatchRecursive(tree, cfg, rules, root, failAt) ==
    WalkResult(WalkDirs(tree, cfg, rules, root), failAt)

\* RemovedKeys with a prefix that lacks the separator
RemovedKeys_NoSeparator(w, path) ==
    IF path \notin DOMAIN w THEN {}
    ELSE {path} \cup
         (IF w[path] THEN {q \in DOMAIN w : HasPrefix(q, path)} ELSE {})

\* the keys handleRemove deletes from the watched map w
RemovedKeys(w, path) ==
    IF path \notin DOMAIN w THEN {}
    ELSE {path} \cup
         (IF w[path]
          THEN {q \in DOMAIN w : HasPrefix(q, path \o <<Separator>>)}
          ELSE {})

\* StopAndDrain without the drain of an expired timer
StopAndDrain_NoDrain(timer, c) == c

\* the value left in debouncer.C by Stop and the drain of triggerRegeneration
StopAndDrain(timer, c) == IF ~timer.active THEN 0 ELSE c

\* the calls of watcher.Add that may fail in a step: the environment spends
\* one of its operations on a failure
FailChoices ==
    IF nOps < MaxOps THEN 0..(Cardinality(DirPaths) + 1) ELSE {0}
Spend(failed) == IF failed THEN 1 ELSE 0

\* triggerRegeneration that stops the timer and never resets it
triggerRegeneration_NoReset ==
    /\ debouncerC' = IF ~debouncer.active THEN 0 ELSE debouncerC
    /\ debouncer' = [debouncer EXCEPT !.active = FALSE]
    /\ waiting' = waiting + 1
    /\ triggered' = Append(triggered, now)
    /\ err' = "nil"

triggerRegeneration ==
    /\ debouncerC' = StopAndDrain(debouncer, debouncerC)
    /\ debouncer' = [active |-> TRUE, when |-> now + DebounceTimeout]
    /\ waiting' = waiting + 1
    /\ triggered' = Append(triggered, now)
    /\ err' = "nil"

\* handleCreate once addWatchRecursive has returned r
createdWith(r) ==
    /\ watched' = WithWatches(watched, r.added, TRUE)
    /\ watcher' = watcher \cup r.added
    /\ nOps' = nOps + Spend(r.err)
    /\ faulted' = (faulted \/ r.err)
    /\ UNCHANGED <<config, reloading>>
    /\ IF r.err
       THEN err' = "error" /\ UNCHANGED timerVars
       ELSE triggerRegeneration

handleCreate(path) ==
    IF path \notin fs
    THEN /\ err' = "error"
         /\ UNCHANGED <<treeVars, timerVars, nOps, faulted>>
    ELSE IF path \in DirPaths /\ shouldWatchDirectory(fs, config, gitignorer, path)
    THEN \E failAt \in FailChoices :
            createdWith(addWatchRecursive(fs, config, gitignorer, path, failAt))
    ELSE /\ triggerRegeneration
         /\ UNCHANGED <<treeVars, nOps, faulted>>

\* handleRemove once the keys to delete are known
removedWith(gone) ==
    /\ watched' = [p \in DOMAIN watched \ gone |-> watched[p]]
    /\ watcher' = watcher \ gone
    /\ triggerRegeneration
    /\ UNCHANGED <<config, reloading, nOps, faulted>>

handleRemove(path) == removedWith(RemovedKeys(watched, path))

\* handleModify that schedules no regeneration
handleModify_Silent(path) ==
    /\ err' = "nil"
    /\ UNCHANGED <<treeVars, timerVars, nOps, faulted>>

handleModify(path) ==
    /\ triggerRegeneration
    /\ UNCHANGED <<treeVars, nOps, faulted>>

handleRename(path) == handleRemove(path)

\* reconfiguredWith that keeps the map it held
reconfiguredWith_NoClear(r) ==
    [watched |-> WithWatches(watched, r.added, TRUE),
     watcher |-> watcher \cup r.added,
     err |-> r.err,
     spent |-> r.err,
     n |-> r.n]

\* reconfigureWatcher once the walk from the root has returned r: every
\* watch held before is dropped
reconfiguredWith(r) ==
    [watched |-> WithWatches(NoWatches, r.added, TRUE),
     watcher |-> (watcher \ DOMAIN watched) \cup r.added,
     err |-> r.err,
     spent |-> r.err,
     n |-> r.n]

\* reconfigureWatcher under configuration cfg
reconfigureWatcher(cfg, failAt) ==
    reconfiguredWith(addWatchRecursive(fs, cfg, gitignorer, RootPath, failAt))

\* the registration of the configuration file that Watch and
\* handleConfigChange both make after reconfigureWatcher has returned r;
\* failAt one past the walk makes watcher.Add(configPath) fail
withConfigWatch(r, failAt) ==
    IF r.err \/ configPath = <<>> THEN r
    ELSE IF configPath \notin fs
    THEN [r EXCEPT !.err = TRUE]
    ELSE IF failAt = r.n + 1
    THEN [r EXCEPT !.err = TRUE, !.spent = TRUE]
    ELSE [r EXCEPT !.watched = WithWatches(r.watched, {configPath}, FALSE),
                   !.watcher = r.watcher \cup {configPath}]

Reconfigure(cfg, failAt) == withConfigWatch(reconfigureWatcher(cfg, failAt), failAt)

\* handleConfigChange once the new configuration is stored and the
\* reconfiguration has returned r
reloadedWith(r) ==
    /\ watched' = r.watched
    /\ watcher' = r.watcher
    /\ nOps' = nOps + Spend(r.spent)
    /\ faulted' = (faulted \/ r.spent)
    /\ IF r.err
       THEN /\ reloading' = TRUE
            /\ err' = "error"
            /\ UNCHANGED timerVars
       ELSE /\ reloading' = FALSE
            /\ triggerRegeneration

\* handleConfigChange once LoadConfig has returned loaded
reloadWith(loaded) ==
    IF loaded.err
    THEN /\ reloading' = TRUE
         /\ err' = "error"
         /\ UNCHANGED <<config, watched, watcher, timerVars, nOps, faulted>>
    ELSE /\ config' = loaded.config
         /\ \E failAt \in FailChoices :
               reloadedWith(Reconfigure(loaded.config, failAt))

handleConfigChange == reloadWith(LoadConfig(diskConfig, FALSE))

\* the Op bits of an event
Ops == {"CREATE", "WRITE", "REMOVE", "RENAME", "CHMOD"}

\* the files an editor or the platform leaves behind pass for any other
Route_NoTemporary(event) ==
    IF event.Name = configPath /\ ~reloading
    THEN IF "WRITE" \in event.Op THEN "handleConfigChange" ELSE "configIgnored"
    ELSE IF ~shouldProcessFile(fs, config, gitignorer, event.Name) THEN "filtered"
    ELSE IF "CREATE" \in event.Op THEN "handleCreate"
    ELSE IF "REMOVE" \in event.Op THEN "handleRemove"
    ELSE IF "WRITE" \in event.Op THEN "handleModify"
    ELSE IF "RENAME" \in event.Op THEN "handleRename"
    ELSE "chmod"

\* a change of permissions passes for a change of content
Route_ChmodAsWrite(event) ==
    IF isTemporaryFile(event.Name) THEN "temporary"
    ELSE IF event.Name = configPath /\ ~reloading
    THEN IF event.Op \cap {"WRITE", "CHMOD"} # {}
         THEN "handleConfigChange" ELSE "configIgnored"
    ELSE IF ~shouldProcessFile(fs, config, gitignorer, event.Name) THEN "filtered"
    ELSE IF "CREATE" \in event.Op THEN "handleCreate"
    ELSE IF "REMOVE" \in event.Op THEN "handleRemove"
    ELSE IF event.Op \cap {"WRITE", "CHMOD"} # {} THEN "handleModify"
    ELSE IF "RENAME" \in event.Op THEN "handleRename"
    ELSE "chmod"

\* the branch of handleEvent that an event takes
Route(event) ==
    IF isTemporaryFile(event.Name) THEN "temporary"
    ELSE IF event.Name = configPath /\ ~reloading
    THEN IF "WRITE" \in event.Op THEN "handleConfigChange" ELSE "configIgnored"
    ELSE IF ~shouldProcessFile(fs, config, gitignorer, event.Name) THEN "filtered"
    ELSE IF "CREATE" \in event.Op THEN "handleCreate"
    ELSE IF "REMOVE" \in event.Op THEN "handleRemove"
    ELSE IF "WRITE" \in event.Op THEN "handleModify"
    ELSE IF "RENAME" \in event.Op THEN "handleRename"
    ELSE "chmod"

\* handleEvent once the branch is known
routed(event, route) ==
    CASE route = "handleConfigChange" -> handleConfigChange
      [] route = "handleCreate" -> handleCreate(event.Name)
      [] route = "handleRemove" -> handleRemove(event.Name)
      [] route = "handleModify" -> handleModify(event.Name)
      [] route = "handleRename" -> handleRename(event.Name)
      [] OTHER -> /\ err' = "nil"
                  /\ UNCHANGED <<treeVars, timerVars, nOps, faulted>>

\* the state of s.mu at the accesses the handler makes to s.watched: "held",
\* "free", or "none" when it makes none
muAt(event, route) ==
    CASE route \in {"handleConfigChange", "handleRemove", "handleRename"} -> "held"
      [] route = "handleCreate" ->
            IF /\ Registers(fs, config, gitignorer, event.Name)
               /\ (err' = "nil" \/ watched' # watched)
            THEN "free" ELSE "none"
      [] OTHER -> "none"

\* the operations triggerRegeneration makes on s.mu, in order
triggerMu == <<"Lock", "Unlock">>

\* muOps of a handleConfigChange that returns its errors with s.mu held
muOps_HeldOnError(event, route) ==
    CASE route = "handleConfigChange" ->
            IF err' = "error" THEN <<"Lock">>
            ELSE <<"Lock", "Unlock">> \o triggerMu
      [] route \in {"handleRemove", "handleRename"} ->
            <<"Lock", "Unlock">> \o triggerMu
      [] route = "handleModify" -> triggerMu
      [] route = "handleCreate" -> IF err' = "nil" THEN triggerMu ELSE <<>>
      [] OTHER -> <<>>

\* the operations the handler of an event makes on s.mu, in order, on the
\* exit path it takes
muOps(event, route) ==
    CASE route = "handleConfigChange" ->
            IF err' = "error" THEN <<"Lock", "Unlock">>
            ELSE <<"Lock", "Unlock">> \o triggerMu
      [] route \in {"handleRemove", "handleRename"} ->
            <<"Lock", "Unlock">> \o triggerMu
      [] route = "handleModify" -> triggerMu
      [] route = "handleCreate" -> IF err' = "nil" THEN triggerMu ELSE <<>>
      [] OTHER -> <<>>

handleEvent(event) ==
    /\ routed(event, Route(event))
    /\ handled' = [Name |-> event.Name, Op |-> event.Op,
                   route |-> Route(event), before |-> DOMAIN watched,
                   mu |-> muAt(event, Route(event))]

(***************************************************************************)
(* The steps of the session.                                               *)
(***************************************************************************)
\* Watch once the initial reconfiguration has returned r
setupWith(r) ==
    /\ watched' = r.watched
    /\ watcher' = IF r.err THEN {} ELSE r.watcher
    /\ nOps' = nOps + Spend(r.spent)
    /\ faulted' = (faulted \/ r.spent)
    /\ err' = IF r.err THEN "error" ELSE "nil"
    /\ loop' = IF r.err THEN "exited" ELSE "running"
    /\ chans' = IF r.err THEN "closed" ELSE chans

\* Watch, up to the call of processEvents
WatchSetup ==
    /\ loop = "setup"
    /\ \E failAt \in FailChoices : setupWith(Reconfigure(config, failAt))
    /\ handled' = [NoEvent EXCEPT !.route = "Watch", !.mu = "free"]
    /\ UNCHANGED <<fs, diskConfig, config, gitignorer, configPath, reloading,
                   Events, timerVars, runVars, now, Errors, ctx, outerVars>>

\* HandleEvent of a loop that waits for the regenerations under way
HandleEvent_Waits ==
    /\ woken = 0
    /\ loop = "running"
    /\ chans = "open"
    /\ Events # <<>>
    /\ handleEvent(Head(Events))
    /\ Events' = Tail(Events)
    /\ UNCHANGED <<fs, diskConfig, gitignorer, configPath, loop, runVars, now,
                   loopVars, outerVars>>

\* processEvents: case event := <-s.watcher.Events
HandleEvent ==
    /\ loop = "running"
    /\ chans = "open"
    /\ Events # <<>>
    /\ handleEvent(Head(Events))
    /\ Events' = Tail(Events)
    /\ UNCHANGED <<fs, diskConfig, gitignorer, configPath, loop, runVars, now,
                   loopVars, outerVars>>

\* the errors the watcher can report
ErrorKinds == {"ErrEventOverflow", "EIO"}

\* isCriticalError that takes every error for critical
isCriticalError_Always(e) == TRUE

\* isCriticalError: the placeholder answers false for every error
isCriticalError(e) == FALSE

\* handleWatchError: what it returns
handleWatchError(e) == IF isCriticalError(e) THEN "error" ELSE "nil"

\* Watch returns: the deferred s.watcher.Close() runs
exitWith(e) ==
    /\ loop' = "exited"
    /\ chans' = "closed"
    /\ err' = e

\* processEvents: case err := <-s.watcher.Errors
HandleError ==
    /\ loop = "running"
    /\ chans = "open"
    /\ Errors # <<>>
    /\ Errors' = Tail(Errors)
    /\ IF handleWatchError(Head(Errors)) = "error"
       THEN exitWith("error")
       ELSE err' = "nil" /\ UNCHANGED <<loop, chans>>
    /\ handled' = [NoEvent EXCEPT !.route = "handleWatchError"]
    /\ UNCHANGED <<fsVars, treeVars, gitignorer, configPath, Events, timerVars,
                   runVars, now, ctx, outerVars>>

\* processEvents: a receive from a closed channel of the watcher
ExitClosed ==
    /\ loop = "running"
    /\ chans = "closed"
    /\ exitWith("error")
    /\ UNCHANGED <<fsVars, treeVars, gitignorer, configPath, Events, timerVars,
                   runVars, now, handled, Errors, ctx, outerVars>>

\* ExitCancelled that first joins the regeneration goroutines
ExitCancelled_Joins ==
    /\ loop = "running"
    /\ ctx = "done"
    /\ waiting = 0
    /\ woken = 0
    /\ exitWith("error")
    /\ UNCHANGED <<fsVars, treeVars, gitignorer, configPath, Events, timerVars,
                   runVars, now, handled, Errors, ctx, outerVars>>

\* processEvents: case <-ctx.Done()
ExitCancelled ==
    /\ loop = "running"
    /\ ctx = "done"
    /\ exitWith("error")
    /\ UNCHANGED <<fsVars, treeVars, gitignorer, configPath, Events, timerVars,
                   runVars, now, handled, Errors, ctx, outerVars>>

(***************************************************************************)
(* The debounce timer and the regeneration goroutines.                     *)
(***************************************************************************)
TimerDue == debouncer.active /\ now >= debouncer.when

\* the runtime fires the timer: a non-blocking send on debouncer.C
TimerFire ==
    /\ TimerDue
    /\ debouncer' = [debouncer EXCEPT !.active = FALSE]
    /\ debouncerC' = 1
    /\ UNCHANGED <<fsVars, treeVars, gitignorer, configPath, Events, err, loop,
                   waiting, triggered, runVars, now, handled, loopVars, outerVars>>

\* a goroutine of triggerRegeneration returns from <-s.debouncer.C
GoroutineReceive ==
    /\ debouncerC = 1
    /\ waiting > 0
    /\ debouncerC' = 0
    /\ waiting' = waiting - 1
    /\ woken' = woken + 1
    /\ UNCHANGED <<fsVars, treeVars, gitignorer, configPath, Events, err, loop,
                   debouncer, triggered, generated, results, now, handled,
                   loopVars, outerVars>>

\* the walk of a regeneration meets no failure or, as one more operation of
\* the environment, one at its first step
GenFaults ==
    IF nOps < MaxEvents
    THEN {NoFault, [at |-> RootPath, kind |-> "entry"]}
    ELSE {NoFault}

\* Generate whose error ends the watch loop
Generate_Fatal ==
    /\ woken > 0
    /\ woken' = woken - 1
    /\ generated' = Append(generated, now)
    /\ \E fault \in GenFaults :
          /\ results' = Append(results,
                               RunGeneration(fs, config,
                                             NewFilter(diskIgnore, <<>>, <<>>),
                                             fault))
          /\ nOps' = nOps + (IF fault = NoFault THEN 0 ELSE 1)
          /\ loop' = IF fault = NoFault THEN loop ELSE "exited"
    /\ UNCHANGED <<fs, diskConfig, faulted, treeVars, gitignorer, configPath,
                   Events, err, timerVars, now, handled, loopVars, outerVars>>

\* the goroutine calls s.Generate(): RunGeneration builds a FileProcessor,
\* which reads the ignore rules anew
Generate ==
    /\ woken > 0
    /\ woken' = woken - 1
    /\ generated' = Append(generated, now)
    /\ \E fault \in GenFaults :
          /\ results' = Append(results,
                               RunGeneration(fs, config,
                                             NewFilter(diskIgnore, <<>>, <<>>),
                                             fault))
          /\ nOps' = nOps + (IF fault = NoFault THEN 0 ELSE 1)
    /\ UNCHANGED <<fs, diskConfig, faulted, treeVars, gitignorer, configPath,
                   Events, err, loop, timerVars, now, handled, loopVars, outerVars>>

\* time passes; a due timer fires, and a goroutine that can receive does,
\* before it does
Elapse ==
    /\ now < MaxTime
    /\ ~TimerDue
    /\ ~(debouncerC = 1 /\ waiting > 0)
    /\ now' = now + 1
    /\ UNCHANGED <<fsVars, treeVars, gitignorer, configPath, Events, err, loop,
                   timerVars, runVars, handled, loopVars, outerVars>>

\* time passes between regenerations, each of which takes none
Tick == woken = 0 /\ Elapse

(***************************************************************************)
(* The environment: the file system under the watch root, and the events   *)
(* fsnotify delivers for the paths whose directory (or which themselves)   *)
(* are on its watch list.                                                  *)
(***************************************************************************)
Notified(p) == Dir(p) \in watcher \/ p \in watcher

\* the event channel after the event of op on p, if one is delivered
Emit(p, op) ==
    IF Notified(p) THEN Append(Events, [Name |-> p, Op |-> {op}]) ELSE Events

CanEmit(p) == Notified(p) => Len(Events) < MaxQueue

\* the file cfg.Output names when it lies in the watched root
Output == Join(RootPath, <<"o">>)

\* s.Generate() under a configuration with an output file: RunGeneration
\* writes the file with os.WriteFile, and fsnotify reports the write
GenerateOutput ==
    /\ woken > 0
    /\ CanEmit(Output)
    /\ woken' = woken - 1
    /\ generated' = Append(generated, now)
    /\ results' = Append(results,
                         RunGeneration(fs, config,
                                       NewFilter(diskIgnore, <<>>, <<>>),
                                       NoFault))
    /\ fs' = fs \cup {Output}
    /\ Events' = Emit(Output, IF Output \in fs THEN "WRITE" ELSE "CREATE")
    /\ UNCHANGED <<diskConfig, nOps, faulted, treeVars, gitignorer, configPath,
                   err, loop, timerVars, now, handled, loopVars, outerVars>>

EnvStepUpTo(max) ==
    /\ loop = "running"
    /\ nOps < max
    /\ nOps' = nOps + 1
    /\ faulted' = faulted
    /\ UNCHANGED <<config, gitignorer, watched, configPath, reloading, err, loop,
                   timerVars, runVars, now, handled, loopVars, outerVars>>

EnvStep == EnvStepUpTo(MaxOps)

\* mkdir, or the creation of a file
FsCreate(p) ==
    /\ EnvStep
    /\ p \in Paths \ fs
    /\ Dir(p) \in fs
    /\ CanEmit(p)
    /\ fs' = fs \cup {p}
    /\ diskConfig' \in IF p = FileConfig THEN DiskContents ELSE {diskConfig}
    /\ Events' = Emit(p, "CREATE")
    /\ UNCHANGED watcher

\* a write to a file
FsWriteUpTo(p, max) ==
    /\ EnvStepUpTo(max)
    /\ p \in fs \ DirPaths
    /\ CanEmit(p)
    /\ diskConfig' \in IF p = FileConfig THEN DiskContents ELSE {diskConfig}
    /\ Events' = Emit(p, "WRITE")
    /\ UNCHANGED <<fs, watcher>>

FsWrite(p) == FsWriteUpTo(p, MaxOps)

\* chmod of a file or a directory
FsChmod(p) ==
    /\ EnvStep
    /\ p \in fs
    /\ CanEmit(p)
    /\ Events' = Emit(p, "CHMOD")
    /\ UNCHANGED <<fs, diskConfig, watcher>>

\* a further write to the one file the timed specification writes
FsTouch == FsWriteUpTo(FileF, MaxEvents)

\* an atomic save of the configuration file: a new file renamed over it
FsReplaceConfig ==
    /\ EnvStep
    /\ FileConfig \in fs
    /\ CanEmit(FileConfig)
    /\ diskConfig' \in DiskContents
    /\ Events' = Emit(FileConfig, "CREATE")
    /\ watcher' = watcher \ {FileConfig}
    /\ UNCHANGED fs

\* unlink, or rmdir of an empty directory
FsRemove(p) ==
    /\ EnvStep
    /\ p \in fs \ {RootPath}
    /\ Entries(fs, p) = {}
    /\ CanEmit(p)
    /\ fs' = fs \ {p}
    /\ diskConfig' = IF p = FileConfig THEN NoFile ELSE diskConfig
    /\ Events' = Emit(p, "REMOVE")
    /\ watcher' = watcher \ {p}

\* p, with all below it, is renamed to a place outside the watch root
FsRename(p) ==
    /\ EnvStep
    /\ p \in fs \ {RootPath}
    /\ CanEmit(p)
    /\ fs' = fs \ ({p} \cup Below(fs, p))
    /\ diskConfig' = IF p = FileConfig THEN NoFile ELSE diskConfig
    /\ Events' = Emit(p, "RENAME")
    /\ watcher' = watcher \ ({p} \cup Below(fs, p))

\* a write to the .gitignore file of the root, which changes its rules
FsWriteIgnore ==
    /\ loop = "running"
    /\ nOps < MaxOps
    /\ FileIgnore \in fs
    /\ CanEmit(FileIgnore)
    /\ diskIgnore' \in IgnoreFiles \ {diskIgnore}
    /\ Events' = Emit(FileIgnore, "WRITE")
    /\ nOps' = nOps + 1
    /\ UNCHANGED <<fs, diskConfig, faulted, treeVars, gitignorer, configPath,
                   err, loop, timerVars, runVars, now, handled, loopVars, proc,
                   call>>

\* the watcher reports an error
NotifyError ==
    /\ loop = "running"
    /\ chans = "open"
    /\ nOps < MaxOps
    /\ Errors = <<>>
    /\ \E e \in ErrorKinds : Errors' = <<e>>
    /\ nOps' = nOps + 1
    /\ UNCHANGED <<fs, diskConfig, faulted, treeVars, gitignorer, configPath,
                   Events, err, loop, timerVars, runVars, now, handled, ctx,
                   chans, outerVars>>

\* the notification source shuts down and closes its channels
SourceClose ==
    /\ loop = "running"
    /\ chans = "open"
    /\ nOps < MaxOps
    /\ chans' = "closed"
    /\ nOps' = nOps + 1
    /\ UNCHANGED <<fs, diskConfig, faulted, treeVars, gitignorer, configPath,
                   Events, err, loop, timerVars, runVars, now, handled, Errors,
                   ctx, outerVars>>

\* an interrupt or termination signal cancels the context of Watch
Cancel ==
    /\ loop = "running"
    /\ ctx = "live"
    /\ ctx' = "done"
    /\ UNCHANGED <<fsVars, treeVars, gitignorer, configPath, Events, err, loop,
                   timerVars, runVars, now, handled, Errors, chans, outerVars>>

(***************************************************************************)
(* Specifications.                                                         *)
(***************************************************************************)
\* the watch tree under file system changes; the clock stands still
Next ==
    \/ WatchSetup
    \/ HandleEvent
    \/ TimerFire
    \/ \E p \in Paths : FsCreate(p)
    \/ \E p \in Paths : FsWrite(p)
    \/ FsReplaceConfig
    \/ \E p \in Paths : FsRemove(p)
    \/ \E p \in Paths : FsRename(p)

Spec == Init /\ [][Next]_vars

\* the debounce timer under writes to one file, with the clock running
InitTimed ==
    /\ Init
    /\ fs = Tree1

NextTimed ==
    \/ WatchSetup
    \/ HandleEvent
    \/ TimerFire
    \/ GoroutineReceive
    \/ Generate
    \/ Tick
    \/ FsTouch

SpecTimed == InitTimed /\ [][NextTimed]_vars

\* the debounce timer when a regeneration takes time: the clock runs while
\* goroutines are in Generate
InitOverlap ==
    /\ InitTimed
    /\ config = DefaultConfig
    /\ diskIgnore = <<>>

NextOverlap ==
    \/ WatchSetup
    \/ HandleEvent
    \/ TimerFire
    \/ GoroutineReceive
    \/ Generate
    \/ Elapse
    \/ FsWrite(FileF)

SpecOverlap == InitOverlap /\ [][NextOverlap]_vars

\* the session of "sink watch . -o output.md": the generation main made
\* before the session has written the output file into the root
InitQuiet ==
    /\ InitOn({Tree1 \cup {Output}})
    /\ config = DefaultConfig
    /\ diskIgnore = <<>>

NextQuiet ==
    \/ WatchSetup
    \/ HandleEvent
    \/ TimerFire
    \/ GoroutineReceive
    \/ GenerateOutput
    \/ Tick
    \/ FsWrite(FileF)

SpecQuiet == InitQuiet /\ [][NextQuiet]_vars

\* did the walk, having visited seen, perform the operation that fails
Met(fault, seen) ==
    /\ fault.at \in seen
    /\ \/ fault.kind = "entry"
       \/ /\ fault.kind = "stat"
          /\ IF fault.at \in DirPaths
             THEN Base(fault.at) # GitName
             ELSE ~IsBinaryFile(fs, fault.at)
       \/ /\ fault.kind = "read"
          /\ fault.at \notin DirPaths
          /\ FileProcessor_shouldProcessFile(fs, config, gitignorer, NoFault,
                                             fault.at)

\* the watch loop with its four sources: events, errors, cancellation and
\* (through the clock) the timer
NextLoop ==
    \/ WatchSetup
    \/ HandleEvent
    \/ HandleError
    \/ ExitClosed
    \/ ExitCancelled
    \/ TimerFire
    \/ GoroutineReceive
    \/ Generate
    \/ Tick
    \/ FsWrite(FileF)
    \/ NotifyError
    \/ SourceClose
    \/ Cancel

SpecLoop == InitTimed /\ [][NextLoop]_vars

\* select picks among its ready cases at random: a case that stays ready is
\* taken in the end
SpecLoopFair == SpecLoop /\ WF_vars(ExitCancelled)

\* Process once it has returned r for the walk that met fault
ran(fault, r) ==
    [proc EXCEPT !.state = "done", !.fault = fault, !.files = r.files,
                 !.err = r.err, !.hit = Met(fault, r.seen)]

\* the generate command: one call of FileProcessor.Process
RunProcess ==
    /\ proc.state = "idle"
    /\ \E fault \in Faults(fs) :
          proc' = ran(fault, Process(fs, config, gitignorer, fault))
    /\ UNCHANGED <<fsVars, treeVars, gitignorer, configPath, Events, err, loop,
                   timerVars, runVars, now, handled, loopVars, call,
                   diskIgnore>>

\* one-shot generation over the trees, configurations and ignore rules
NextProcess == RunProcess

SpecProcess == InitProcess /\ [][NextProcess]_vars

\* a session on a tree with a binary file, a configuration file and the
\* files an editor leaves, under writes to its files, the creation of /r/a/b
\* and the renaming of /r/.git
DropFiles == {FileX, FileConfig, FileBak, FileAuto}
InitDrop == InitOn({Tree1 \cup DropFiles, Tree2 \cup DropFiles})

NextDrop ==
    \/ WatchSetup
    \/ HandleEvent
    \/ TimerFire
    \/ \E p \in {FileF} \cup DropFiles : FsWrite(p)
    \/ FsCreate(DirA_B)
    \/ FsRename(DirGit)

SpecDrop == InitDrop /\ [][NextDrop]_vars

\* a session whose ignore file and configuration file are rewritten, and
\* the permissions of its paths changed, while it runs
ReloadFiles == {FileConfig, FileIgnore}
InitReload == InitOn({Tree1 \cup ReloadFiles, Tree2 \cup ReloadFiles})

NextReload ==
    \/ WatchSetup
    \/ HandleEvent
    \/ TimerFire
    \/ FsWrite(FileConfig)
    \/ FsWriteIgnore
    \/ FsCreate(DirA_B)
    \/ \E p \in {FileF, FileConfig, DirA} : FsChmod(p)

SpecReload == InitReload /\ [][NextReload]_vars

\* the relative paths and the patterns MatchesAny is called on: "f.g" at
\* four depths, under another directory, under a directory whose name begins
\* like "a", with another extension, in upper case, and a directory
FG == <<"f", ".", "g">>
MatchPaths ==
    {FG,
     <<"a", "/">> \o FG,
     <<"a", "/", "b", "/">> \o FG,
     <<"a", "/", "b", "/", "b", "/">> \o FG,
     <<"b", "/">> \o FG,
     <<"a", "b", "/">> \o FG,
     <<"a", "/", "b", "/", "f", ".", "t">>,
     <<"F", ".", "G">>,
     <<"a", "/", "F", ".", "G">>,
     <<"a", "/", "b">>}

PatExt == <<"*", ".", "g">>
PatExtUpper == <<"*", ".", "G">>
PatRec == <<"a", "/", "*", "*", "/", "*", ".", "g">>
PatDirExt == <<"a", "/", "*", ".", "g">>
PatPath == <<"a", "/", "b">>
MatchLists ==
    {<<>>, <<PatExt>>, <<PatExtUpper>>, <<PatRec>>, <<PatDirExt>>, <<FG>>,
     <<PatPath>>, <<PatPath, PatExt>>, <<PatRec, PatExtUpper>>}

\* the tree, the configurations and the ignore files the two
\* shouldProcessFile are called under
FileUF == Join(RootPath, <<"F">>)
SelectTree ==
    {RootPath, DirA, DirGit, FileF, FileUF, FileX, FileA_F, FileGit_H}
PatternADir == <<"a", "/", "*">>
SelectConfigs ==
    {[FilterPatterns |-> f, ExcludePatterns |-> x, CaseSensitive |-> c] :
        f \in {<<>>, <<PatternF>>, <<PatternADir>>},
        x \in {<<>>, <<PatternA>>, <<<<"F">>>>},
        c \in BOOLEAN}

\* the watch command and the generate command, started on the same tree
\* with the same configuration
InitSelect ==
    /\ fs = SelectTree
    /\ diskConfig = NoFile
    /\ config \in SelectConfigs
    /\ diskIgnore \in {<<>>, <<RuleF>>, <<RuleADir>>}
    /\ gitignorer = NewFilter(diskIgnore, <<>>, <<>>)
    /\ proc = NoRun(diskIgnore, <<>>, <<>>)
    /\ call = NoCall
    /\ InitSession

\* a call of filter.MatchesAny
CallMatchesAny ==
    /\ call.fn = "none"
    /\ \E path \in MatchPaths, patterns \in MatchLists, cs \in BOOLEAN :
          call' = [fn |-> "MatchesAny", path |-> path, patterns |-> patterns,
                   caseSensitive |-> cs,
                   result |-> MatchesAny(path, patterns, cs),
                   other |-> FALSE]
    /\ UNCHANGED <<fsVars, treeVars, gitignorer, configPath, Events, err, loop,
                   timerVars, runVars, now, handled, loopVars, proc,
                   diskIgnore>>

\* the watch session and the traversal each ask their shouldProcessFile
\* about one file of the tree
CallShouldProcessFile ==
    /\ call.fn = "none"
    /\ \E path \in fs \ DirPaths :
          call' = [fn |-> "shouldProcessFile", path |-> path,
                   patterns |-> <<>>,
                   caseSensitive |-> config.CaseSensitive,
                   result |-> shouldProcessFile(fs, config, gitignorer, path),
                   other |-> FileProcessor_shouldProcessFile(
                                fs, config, gitignorer, NoFault, path)]
    /\ UNCHANGED <<fsVars, treeVars, gitignorer, configPath, Events, err, loop,
                   timerVars, runVars, now, handled, loopVars, proc,
                   diskIgnore>>

NextSelect ==
    \/ CallMatchesAny
    \/ CallShouldProcessFile

SpecSelect == InitSelect /\ [][NextSelect]_vars

(***************************************************************************)
(* Properties of the debounce timer (checked under SpecTimed).             *)
(***************************************************************************)
NTrig == Len(triggered)

\* the time between the i-th surviving event and the next one
Gap(i) == triggered[i + 1] - triggered[i]

\* the instant of the event after the i-th, past the clock for the last one
NextTrig(i) == IF i = NTrig THEN MaxTime + DebounceTimeout + 1 ELSE triggered[i + 1]

\* the calls of Generate at an instant of lo..hi-1
GensIn(lo, hi) == {j \in 1..Len(generated) : lo <= generated[j] /\ generated[j] < hi}

\* events a..b are a burst: every gap inside is shorter than the timeout and
\* the gap before it, if any, is longer
IsBurst(a, b) ==
    /\ a <= b
    /\ \A i \in a..(b - 1) : Gap(i) < DebounceTimeout
    /\ a = 1 \/ Gap(a - 1) > DebounceTimeout

\* the burst ending with event b is over: the next event came later than
\* the timeout, or the timeout has passed with no event
Settled(b) ==
    IF b = NTrig THEN now > triggered[b] + DebounceTimeout
    ELSE Gap(b) > DebounceTimeout

\* C1: the events of a burst (consecutive surviving events less than the
\* timeout apart) lead to exactly one call of Generate, and that call comes
\* no sooner than the timeout after the last event of the burst
C1_Coalescing ==
    \A a \in 1..NTrig : \A b \in a..NTrig :
        IsBurst(a, b) =>
            /\ \A j \in GensIn(triggered[a], NextTrig(b)) :
                  generated[j] >= triggered[b] + DebounceTimeout
            /\ Settled(b) => Cardinality(GensIn(triggered[a], NextTrig(b))) = 1

\* a burst of three events, one clock unit apart, has settled
C1_Witness ==
    /\ NTrig = 3
    /\ Gap(1) = 1
    /\ Gap(2) = 1
    /\ now > triggered[3] + DebounceTimeout
    /\ Len(generated) = 1

\* C2: an event followed by a gap longer than the timeout (or by the
\* timeout with no event) leads to exactly one call of Generate before the
\* next event, whatever number of goroutines is still waiting on the timer;
\* so events that are all more than the timeout apart lead to as many calls
C2_Separation ==
    /\ \A i \in 1..NTrig :
          Settled(i) =>
              Cardinality(GensIn(triggered[i] + DebounceTimeout, NextTrig(i))) = 1
    /\ (/\ NTrig >= 1
        /\ \A i \in 1..(NTrig - 1) : Gap(i) > DebounceTimeout
        /\ Settled(NTrig)) => Len(generated) = NTrig

\* two events of one burst left a goroutine waiting; two later events, each
\* more than the timeout after the one before, have both been answered
C2_Witness ==
    /\ NTrig = 4
    /\ Gap(1) < DebounceTimeout
    /\ Gap(2) > DebounceTimeout
    /\ Gap(3) > DebounceTimeout
    /\ Settled(4)
    /\ waiting >= 1
    /\ Len(generated) = 3

\* C10: at most one regeneration is pending at any instant: at most one
\* goroutine waits on the timer or is about to call Generate, the timer is
\* never armed while an expiry is undelivered, and no burst calls Generate
\* twice
C10_SinglePending ==
    /\ waiting + woken <= 1
    /\ ~(debouncer.active /\ debouncerC = 1 /\ NTrig > 0)
    /\ \A a \in 1..NTrig : \A b \in a..NTrig :
          IsBurst(a, b) => Cardinality(GensIn(triggered[a], NextTrig(b))) <= 1

(***************************************************************************)
(* Properties of the watch tree (checked under Spec).                      *)
(***************************************************************************)
\* the directories of tree at or above d, the root excepted
UpTo(tree, d) ==
    {e \in (tree \cap DirPaths) \ {RootPath} :
        e = d \/ HasPrefix(d, e \o <<Separator>>)}

\* the directory-selection policy on one directory: not ignored, not
\* matched by an exclude pattern, not the metadata directory
Qualifies(cfg, rules, e) ==
    /\ ~MatcherMatch(rules, PathParts(Rel(RootPath, e)), TRUE)
    /\ \A i \in 1..Len(cfg.ExcludePatterns) :
          ~MatchesOne(IF cfg.CaseSensitive THEN Rel(RootPath, e)
                      ELSE ToLower(Rel(RootPath, e)),
                      cfg.ExcludePatterns[i], cfg.CaseSensitive)
    /\ Base(e) # GitName

\* the directories the policy selects in tree: the root, and every
\* directory that qualifies and lies in no directory that does not
PolicySelected(tree, cfg, rules) ==
    {d \in tree \cap DirPaths : \A e \in UpTo(tree, d) : Qualifies(cfg, rules, e)}

\* the watched paths that are registered as directories
WatchedDirs(w) == {p \in DOMAIN w : w[p]}

\* this step is HandleEvent
IsHandle == Events # <<>> /\ Events' = Tail(Events)

\* q lies below p, segment by segment
Under(q, p) ==
    LET qs == PathParts(Rel(RootPath, q))
        ps == PathParts(Rel(RootPath, p))
    IN  Len(qs) > Len(ps) /\ SubSeq(qs, 1, Len(ps)) = ps

\* C3: once every event is handled (and no watch registration has failed),
\* the watched directories are exactly those the policy selects in the tree
C3_WatchSetInvariant ==
    (loop = "running" /\ Events = <<>> /\ ~faulted /\ ~reloading) =>
        WatchedDirs(watched) = PolicySelected(fs, config, gitignorer)

\* C4: a removal event for a path that is gone from the disk, and that
\* passed the selection policy while it existed, arms the timer and leaves
\* the path out of the watched set
C4_RemovalSurvives ==
    [][(/\ IsHandle
        /\ "REMOVE" \in Head(Events).Op
        /\ Head(Events).Name \notin fs
        /\ Head(Events).Name # configPath
        /\ ~isTemporaryFile(Head(Events).Name)
        /\ shouldProcessFile(fs \cup {Head(Events).Name}, config, gitignorer,
                             Head(Events).Name))
       => /\ Len(triggered') = Len(triggered) + 1
          /\ debouncer'.active
          /\ Head(Events).Name \notin DOMAIN watched']_vars

\* C5: a creation event for a directory the policy selects leaves it and
\* every selected directory below it watched, whatever the filter patterns
C5_DirectoryCreation ==
    [][(/\ IsHandle
        /\ "CREATE" \in Head(Events).Op
        /\ Head(Events).Name \in PolicySelected(fs, config, gitignorer)
        /\ faulted' = faulted)
       => \A d \in PolicySelected(fs, config, gitignorer) :
             (d = Head(Events).Name \/ Under(d, Head(Events).Name))
                => d \in WatchedDirs(watched') /\ d \in watcher']_vars

\* C6: handleRemove on a watched directory deletes that entry and the
\* entries of the paths below it, and leaves every other entry as it was
C6_SubtreeRemoval ==
    [][(/\ IsHandle
        /\ Route(Head(Events)) \in {"handleRemove", "handleRename"}
        /\ Head(Events).Name \in WatchedDirs(watched))
       => /\ DOMAIN watched' =
                DOMAIN watched \ ({Head(Events).Name} \cup
                    {q \in DOMAIN watched : Under(q, Head(Events).Name)})
          /\ \A q \in DOMAIN watched' : watched'[q] = watched[q]]_vars

\* handleRemove has deleted /r/a and /r/a/b and kept /r/ab
C6_Witness ==
    /\ handled.route \in {"handleRemove", "handleRename"}
    /\ handled.Name = DirA
    /\ {DirA, DirA_B, DirAB} \subseteq handled.before
    /\ DOMAIN watched = handled.before \ {DirA, DirA_B}

\* this step is a reconfiguration that returned no error: Watch's, or
\* handleConfigChange's
IsReconfigure ==
    \/ loop = "setup" /\ loop' = "running"
    \/ IsHandle /\ Route(Head(Events)) = "handleConfigChange" /\ err' = "nil"

\* C7: a reconfiguration that succeeds leaves exactly the directories the
\* policy selects (and the configuration file) watched, whatever was held
\* before; so one that runs on its own outcome changes nothing
C7_Reconcile ==
    [][IsReconfigure =>
        /\ WatchedDirs(watched') = PolicySelected(fs, config', gitignorer)
        /\ DOMAIN watched' \ WatchedDirs(watched') \subseteq {configPath}
        /\ RootPath \in DOMAIN watched'
        /\ (/\ config' = config
            /\ WatchedDirs(watched) = PolicySelected(fs, config, gitignorer)
            /\ DOMAIN watched \ WatchedDirs(watched) = {configPath})
           => watched' = watched]_vars

\* a reload has dropped an entry held before it
C7_Witness ==
    /\ handled.route = "handleConfigChange"
    /\ err = "nil"
    /\ ~faulted
    /\ ~(handled.before \subseteq DOMAIN watched)
    /\ RootPath \in DOMAIN watched

\* C8: an event on the configuration file that reflects a change of it (a
\* write, or a replacement seen as create or rename) reloads the
\* configuration, reconciles the watch set, registers the file again and
\* arms the timer
C8_ConfigChange ==
    [][(/\ IsHandle
        /\ Head(Events).Name = configPath
        /\ Head(Events).Op \cap {"WRITE", "CREATE", "RENAME"} # {}
        /\ configPath \in fs
        /\ diskConfig.state = "ok"
        /\ ~faulted')
       => /\ config' = LoadConfig(diskConfig, FALSE).config
          /\ WatchedDirs(watched') = PolicySelected(fs, config', gitignorer)
          /\ configPath \in DOMAIN watched'
          /\ Len(triggered') = Len(triggered) + 1]_vars

\* C9: a reload that fails (the file does not parse, or the reconfiguration
\* or the registration of the file returns an error) leaves the prior
\* configuration and the prior watched set in place
C9_NoHalfReload ==
    [][(/\ IsHandle
        /\ Route(Head(Events)) = "handleConfigChange"
        /\ (diskConfig.state # "ok" \/ err' = "error"))
       => /\ config' = config
          /\ watched' = watched]_vars

(***************************************************************************)
(* Properties of the one-shot traversal (checked under SpecProcess).       *)
(***************************************************************************)
\* matchesAny of the path matcher: some pattern of the list matches
SomePatternMatches(path, patterns, caseSensitive) ==
    \E i \in 1..Len(patterns) :
        MatchesOne(IF caseSensitive THEN Rel(RootPath, path)
                   ELSE ToLower(Rel(RootPath, path)),
                   patterns[i], caseSensitive)

\* the ignore rules decide against path
Ignored(rules, path) ==
    MatcherMatch(rules, PathParts(Rel(RootPath, path)), path \in DirPaths)

\* accept(p) of the file acceptance rule
Accept(cfg, rules, p) ==
    /\ Len(cfg.FilterPatterns) = 0
          \/ SomePatternMatches(p, cfg.FilterPatterns, cfg.CaseSensitive)
    /\ ~SomePatternMatches(p, cfg.ExcludePatterns, cfg.CaseSensitive)
    /\ ~Ignored(rules, p)
    /\ p \notin BinaryFiles

\* the walk prunes directory d
Pruned(cfg, rules, d) ==
    \/ Base(d) = GitName
    \/ Ignored(rules, d)
    \/ SomePatternMatches(d, cfg.ExcludePatterns, cfg.CaseSensitive)

\* the directories of tree that hold p, the root included
Holders(tree, p) ==
    {d \in tree \cap DirPaths : d = RootPath \/ HasPrefix(p, d \o <<Separator>>)}

FilesOf(tree) == tree \ DirPaths

\* C15: the traversal accepts a file exactly when accept(p) holds: its file
\* check computes accept(p), and a walk that met no failure outputs the
\* files with accept(p) of the directories it entered
C15_FileAcceptance ==
    /\ \A p \in FilesOf(fs) :
          FileProcessor_shouldProcessFile(fs, config, gitignorer, NoFault, p)
             <=> Accept(config, gitignorer, p)
    /\ (proc.state = "done" /\ proc.fault = NoFault) =>
          Range(proc.files) =
             {p \in FilesOf(fs) :
                /\ Accept(config, gitignorer, p)
                /\ \A d \in Holders(fs, p) : ~Pruned(config, gitignorer, d)}

\* a run with filter and exclude patterns has output /r/f and left out the
\* binary file
C15_Witness ==
    /\ proc.state = "done"
    /\ proc.fault = NoFault
    /\ Len(config.FilterPatterns) > 0
    /\ Len(config.ExcludePatterns) > 0
    /\ FileX \in fs
    /\ proc.files = <<FileF>>

\* C16: at the four call sites an empty filter list accepts every path and
\* an empty exclude list excludes none: each decides as the other checks
\* alone decide
C16_EmptyPolicy ==
    \A p \in fs \ {RootPath} :
       /\ (Len(config.FilterPatterns) = 0 /\ p \notin DirPaths) =>
             /\ FileProcessor_shouldProcessFile(fs, config, gitignorer, NoFault, p)
                   <=> /\ p \notin BinaryFiles
                       /\ ~Ignored(gitignorer, p)
                       /\ ~SomePatternMatches(p, config.ExcludePatterns,
                                              config.CaseSensitive)
             /\ shouldProcessFile(fs, config, gitignorer, p)
                   <=> /\ p \notin BinaryFiles
                       /\ ~Ignored(gitignorer, p)
                       /\ ~SomePatternMatches(p, config.ExcludePatterns,
                                              config.CaseSensitive)
       /\ (Len(config.ExcludePatterns) = 0 /\ p \notin DirPaths) =>
             /\ FileProcessor_shouldProcessFile(fs, config, gitignorer, NoFault, p)
                   <=> /\ p \notin BinaryFiles
                       /\ ~Ignored(gitignorer, p)
                       /\ Len(config.FilterPatterns) = 0
                             \/ SomePatternMatches(p, config.FilterPatterns,
                                                   config.CaseSensitive)
             /\ shouldProcessFile(fs, config, gitignorer, p)
                   <=> /\ p \notin BinaryFiles
                       /\ ~Ignored(gitignorer, p)
                       /\ Len(config.FilterPatterns) = 0
                             \/ SomePatternMatches(p, config.FilterPatterns,
                                                   config.CaseSensitive)
       /\ (Len(config.ExcludePatterns) = 0 /\ p \in DirPaths) =>
             /\ visit(fs, config, gitignorer, NoFault, p) = "SkipDir"
                   <=> (Base(p) = GitName \/ Ignored(gitignorer, p))
             /\ shouldWatchDirectory(fs, config, gitignorer, p)
                   <=> ~Ignored(gitignorer, p)

\* a run with neither filter nor exclude patterns has output files
C16_Witness ==
    /\ proc.state = "done"
    /\ ~proc.err
    /\ Len(config.FilterPatterns) = 0
    /\ Len(config.ExcludePatterns) = 0
    /\ gitignorer = <<>>
    /\ Range(proc.files) = {FileF, FileA_F}

\* C17: no file of the output lies in a directory that the ignore rules
\* ignore or an exclude pattern matches
C17_Pruning ==
    proc.state = "done" =>
       \A f \in Range(proc.files) : \A d \in Holders(fs, f) :
          /\ ~Ignored(gitignorer, d)
          /\ ~SomePatternMatches(d, config.ExcludePatterns, config.CaseSensitive)

\* /r/a is ignored; /r/a/f matches the filter and is re-included by "!f",
\* and the run has output /r/f alone
C17_Witness ==
    /\ proc.state = "done"
    /\ ~proc.err
    /\ config.FilterPatterns = <<PatternF>>
    /\ Ignored(gitignorer, DirA)
    /\ FileA_F \in fs
    /\ ~Ignored(gitignorer, FileA_F)
    /\ proc.files = <<FileF>>

\* C18: a walk that fails to read the metadata of an entry or the content
\* of an accepted file returns an error and no files; it returns no files
\* with any error
C18_FailurePolicy ==
    proc.state = "done" =>
       /\ proc.err => proc.files = <<>>
       /\ proc.hit => proc.err

\* C19: the compiled rules are the system ones, then the global ones, then
\* the local ones, so that for a path a local rule matches the local rules
\* decide
C19_LocalDecides ==
    proc.state = "done" =>
       /\ gitignorer = proc.system \o proc.global \o proc.local
       /\ \A p \in fs \ {RootPath} :
             (\E i \in 1..Len(proc.local) :
                 RuleMatches(proc.local[i], PathParts(Rel(RootPath, p)),
                             p \in DirPaths))
                => (Ignored(gitignorer, p) <=> Ignored(proc.local, p))

(***************************************************************************)
(* Properties of the watch loop (checked under SpecLoop, SpecLoopFair,     *)
(* SpecTimed and Spec).                                                    *)
(***************************************************************************)
\* this step is HandleError
IsHandleError == Errors # <<>> /\ Errors' = Tail(Errors)

\* C11: handling an error of the error stream leaves the loop running with
\* its events, watches and timer as they were, and the loop leaves its
\* running state only when a channel of the watcher is closed or the
\* context is cancelled
C11_ErrorStream ==
    [][/\ IsHandleError =>
             /\ loop' = "running"
             /\ err' = "nil"
             /\ UNCHANGED <<Events, watched, watcher, config, timerVars>>
       /\ (loop = "running" /\ loop' # "running") =>
             (chans = "closed" \/ ctx = "done")]_vars

\* an error has been handled and the loop is about to handle an event
C11_Witness ==
    /\ handled.route = "handleWatchError"
    /\ loop = "running"
    /\ chans = "open"
    /\ Events # <<>>

\* this step is Generate, and the regeneration fails
IsFailedGenerate ==
    /\ Len(results') = Len(results) + 1
    /\ results'[Len(results')] = "error"

\* the instants of the failed regenerations
FailedAt == {generated[j] : j \in {k \in 1..Len(results) : results[k] = "error"}}

\* C12: a regeneration that fails leaves the loop running and the watched
\* set and the timer as they were; an event handled after it arms the timer
\* for a further goroutine, and once it has settled Generate has run again
C12_RegenerationFailure ==
    [][/\ IsFailedGenerate =>
             /\ loop = "running"
             /\ UNCHANGED <<loop, err, Events, watched, watcher, config,
                            debouncer, debouncerC, waiting, triggered>>
       /\ (/\ FailedAt # {}
           /\ IsHandle
           /\ Route(Head(Events)) \in {"handleCreate", "handleModify"})
          => /\ debouncer' = [active |-> TRUE, when |-> now + DebounceTimeout]
             /\ waiting' = waiting + 1
       /\ \A i \in 1..NTrig :
             (Settled(i) /\ \E t \in FailedAt : t <= triggered[i])
                => GensIn(triggered[i] + DebounceTimeout, NextTrig(i)) # {}]_vars

\* a regeneration has failed and a later event has led to Generate again
C12_Witness ==
    /\ loop = "running"
    /\ Len(results) >= 2
    /\ results[1] = "error"
    /\ \E i \in 1..NTrig :
          /\ triggered[i] > generated[1]
          /\ generated[Len(generated)] >= triggered[i] + DebounceTimeout

\* C13: once the context is cancelled the loop exits, the watcher is closed
\* whenever the loop has exited, and the exit waits for no goroutine of a
\* regeneration
C13_Cancellation ==
    /\ (ctx = "done" /\ loop = "running") ~> (loop = "exited")
    /\ [](loop = "exited" => chans = "closed")

\* the loop has exited on cancellation while a goroutine waits on the timer
\* and another is about to call Generate
C13_Witness ==
    /\ loop = "exited"
    /\ ctx = "done"
    /\ chans = "closed"
    /\ waiting > 0
    /\ woken > 0

\* C14: every access of a handler, and of the setup of Watch, to the watched
\* map is made with s.mu held
C14_LockDiscipline == handled.mu # "free"

\* path is a metadata directory or lies in one
InGit(path) == GitName \in Range(PathParts(Rel(RootPath, path)))

\* C20: whatever the rules and the patterns, no watched path is or lies in
\* a .git directory, the traversal of the tree as it stands outputs no file
\* of one, and handling an event on such a path leaves the timer alone
C20_MetadataDirectory ==
    /\ [](/\ \A p \in DOMAIN watched : ~InGit(p)
          /\ \A f \in Range(Process(fs, config, gitignorer, NoFault).files) :
                ~InGit(f))
    /\ [][(IsHandle /\ InGit(Head(Events).Name))
             => UNCHANGED <<timerVars, watched, watcher>>]_vars

\* a nested .git directory was created under the watched /r/a and its
\* event handled; .git holds a file, and the traversal outputs others
C20_Witness ==
    /\ handled.Name = DirA_Git
    /\ "CREATE" \in handled.Op
    /\ DirA_Git \in fs
    /\ FileGit_H \in fs
    /\ DirA \in DOMAIN watched
    /\ Process(fs, config, gitignorer, NoFault).files # <<>>
    /\ triggered = <<>>

(***************************************************************************)
(* Properties of the selection functions (checked under SpecSelect).       *)
(***************************************************************************)
\* the pattern holds no separator
Bare(pattern) == \A i \in 1..Len(pattern) : pattern[i] # Separator

\* s as MatchesAny compares it: in lower case unless the case matters
Folded(s, caseSensitive) == IF caseSensitive THEN s ELSE ToLower(s)

\* C21: a call of MatchesAny with an empty pattern list returns false
C21_EmptyList ==
    (call.fn = "MatchesAny" /\ call.patterns = <<>>) => call.result = FALSE

\* C22: MatchesAny matches a pattern without separator against the last
\* segment of the path and a pattern with one against the whole path; so
\* with bare patterns alone the result is that of the bare file name
C22_BareAndRooted ==
    (call.fn = "MatchesAny" /\ call.patterns # <<>>) =>
       /\ call.result =
             \E i \in 1..Len(call.patterns) :
                GlobMatch(Folded(call.patterns[i], call.caseSensitive),
                          IF Bare(call.patterns[i])
                          THEN Base(Folded(call.path, call.caseSensitive))
                          ELSE Folded(call.path, call.caseSensitive))
       /\ (\A i \in 1..Len(call.patterns) : Bare(call.patterns[i])) =>
             call.result = MatchesAny(Base(call.path), call.patterns,
                                      call.caseSensitive)

\* "*.g" has matched f.g two directories down
C22_Witness ==
    /\ call.fn = "MatchesAny"
    /\ call.patterns = <<PatExt>>
    /\ call.path = <<"a", "/", "b", "/">> \o FG
    /\ call.result

\* C23: the pattern a/**/*.g matches a path exactly when its first segment
\* is a, its last segment matches *.g, and there are at least these two
C23_RecursiveWildcard ==
    (call.fn = "MatchesAny" /\ call.patterns = <<PatRec>>) =>
       (call.result <=>
          /\ Len(PathParts(Folded(call.path, call.caseSensitive))) >= 2
          /\ Head(PathParts(Folded(call.path, call.caseSensitive))) = <<"a">>
          /\ StarMatch(PatExt, Base(Folded(call.path, call.caseSensitive))))

\* a/**/*.g has matched a/f.g, with no segment in between
C23_Witness ==
    /\ call.fn = "MatchesAny"
    /\ call.patterns = <<PatRec>>
    /\ call.path = <<"a", "/">> \o FG
    /\ call.result

\* C24: without case sensitivity the result is that of the lower-cased path
\* against the lower-cased patterns; with it, path and patterns are matched
\* as they are
C24_CaseSensitivity ==
    call.fn = "MatchesAny" =>
       /\ ~call.caseSensitive =>
             call.result =
                MatchesAny(ToLower(call.path),
                           [i \in 1..Len(call.patterns) |->
                               ToLower(call.patterns[i])],
                           TRUE)
       /\ (call.caseSensitive /\ call.patterns # <<>>) =>
             call.result =
                \E i \in 1..Len(call.patterns) :
                   GlobMatch(call.patterns[i],
                             IF Bare(call.patterns[i])
                             THEN Base(call.path) ELSE call.path)

\* F.G has matched *.g in a call that is not case sensitive
C24_Witness ==
    /\ call.fn = "MatchesAny"
    /\ call.patterns = <<PatExt>>
    /\ call.path = <<"F", ".", "G">>
    /\ ~call.caseSensitive
    /\ call.result

\* C25: on every file of the tree, under every configuration and ignore
\* file, the shouldProcessFile of the watch session and that of the
\* traversal give the same answer
C25_SameSelection ==
    call.fn = "shouldProcessFile" => call.result = call.other

\* both have accepted /r/f where the case matters, the filter is "f" and the
\* exclude pattern "F"
C25_Witness ==
    /\ call.fn = "shouldProcessFile"
    /\ call.path = FileF
    /\ config.CaseSensitive
    /\ config.ExcludePatterns = <<<<"F">>>>
    /\ config.FilterPatterns = <<PatternF>>
    /\ call.result
    /\ call.other

(***************************************************************************)
(* Properties of the classification of events.                             *)
(***************************************************************************)
\* the path exists and the file-selection policy rejects it: binary,
\* ignored, matched by an exclude pattern, or not matched by the filter
\* patterns there are
Rejected(p) == p \in fs /\ ~Accept(config, gitignorer, p)

\* the loop takes the event for a change of the configuration
IsConfigWrite(event) ==
    event.Name = configPath /\ ~reloading /\ "WRITE" \in event.Op

\* C26 as stated: handling an event on a path the policy rejects leaves the
\* watched set and the timer as they were, and no binary file is in the
\* output of the traversal
C26_DroppedEvents ==
    /\ [](\A f \in Range(Process(fs, config, gitignorer, NoFault).files) :
             f \notin BinaryFiles)
    /\ [][(IsHandle /\ Rejected(Head(Events).Name))
             => UNCHANGED <<watched, watcher, timerVars>>]_vars

\* C26 amended: the same, for every event but a write to the configuration
\* file that the loop takes for a change of the configuration
C26_DroppedUnlessConfig ==
    /\ [](\A f \in Range(Process(fs, config, gitignorer, NoFault).files) :
             f \notin BinaryFiles)
    /\ [][(/\ IsHandle
           /\ Rejected(Head(Events).Name)
           /\ ~IsConfigWrite(Head(Events)))
             => UNCHANGED <<watched, watcher, timerVars>>]_vars

\* a write to the binary file /r/x has been handled and dropped
C26_Witness ==
    /\ handled.Name = FileX
    /\ "WRITE" \in handled.Op
    /\ handled.route = "filtered"
    /\ FileX \in fs
    /\ config.FilterPatterns = <<>>
    /\ triggered = <<>>

\* C27: handling an event on the file an editor or the platform leaves
\* behind (a dotfile, a name ending in "~", a #name#) leaves the watched
\* set, the configuration and the timer as they were, whatever the policy
\* and the configuration path
C27_TransientFirst ==
    [][(IsHandle /\ isTemporaryFile(Head(Events).Name))
          => /\ err' = "nil"
             /\ UNCHANGED <<watched, watcher, config, reloading,
                            timerVars>>]_vars

\* a write to /r/f~, which the policy accepts, has been handled and dropped
C27_Witness ==
    /\ handled.Name = FileBak
    /\ "WRITE" \in handled.Op
    /\ handled.route = "temporary"
    /\ shouldProcessFile(fs, config, gitignorer, FileBak)
    /\ triggered = <<>>

\* C28: a reload that succeeds leaves the session with the ignore rules the
\* ignore file holds at that time, and with the watches the policy selects
\* under them
C28_RulesReloaded ==
    [][(/\ IsHandle
        /\ Route(Head(Events)) = "handleConfigChange"
        /\ err' = "nil")
          => /\ gitignorer' = NewFilter(diskIgnore, <<>>, <<>>)
             /\ WatchedDirs(watched') =
                   PolicySelected(fs, config',
                                  NewFilter(diskIgnore, <<>>, <<>>))]_vars

(***************************************************************************)
(* Properties of the regeneration goroutines (checked under SpecOverlap).  *)
(***************************************************************************)
\* C29: while goroutines are in Generate the loop can handle the event at
\* the head of its channel, a further goroutine can receive from the timer
\* and join them, and an event handled then arms the timer as ever
C29_NoWaiting ==
    /\ []((woken > 0 /\ loop = "running" /\ chans = "open" /\ Events # <<>>)
             => ENABLED HandleEvent)
    /\ []((woken > 0 /\ waiting > 0 /\ debouncerC = 1)
             => ENABLED GoroutineReceive)
    /\ [][(/\ woken > 0
           /\ IsHandle
           /\ Route(Head(Events)) = "handleModify")
             => /\ debouncer' = [active |-> TRUE,
                                 when |-> now + DebounceTimeout]
                /\ waiting' = waiting + 1
                /\ woken' = woken]_vars

\* two goroutines are in Generate at once: the second event was handled,
\* and its timer expired, while the first regeneration ran
C29_Witness ==
    /\ woken = 2
    /\ loop = "running"
    /\ NTrig = 2
    /\ triggered[2] > triggered[1] + DebounceTimeout
    /\ generated = <<>>

(***************************************************************************)
(* Properties of the handling of renames (checked under Spec).             *)
(***************************************************************************)
\* C30: handling the RENAME event of a watched directory that is gone from
\* the disk deregisters it and every watched path below it, registers
\* nothing, and arms the timer
C30_RenameAsRemoval ==
    [][(/\ IsHandle
        /\ "RENAME" \in Head(Events).Op
        /\ Head(Events).Name \in WatchedDirs(watched)
        /\ Head(Events).Name \notin fs)
          => /\ DOMAIN watched' =
                   DOMAIN watched \ ({Head(Events).Name} \cup
                       {q \in DOMAIN watched : Under(q, Head(Events).Name)})
             /\ debouncer' = [active |-> TRUE, when |-> now + DebounceTimeout]
             /\ waiting' = waiting + 1]_vars

(***************************************************************************)
(* Properties that compare the watch session with the traversal.           *)
(***************************************************************************)
\* the directories the walk of Process enters
Entered(tree, cfg, rules) ==
    {d \in Process(tree, cfg, rules, NoFault).seen \cap DirPaths :
        visit(tree, cfg, rules, NoFault, d) = "descend"}

\* C31: the directories watched after a reconfiguration without failure,
\* the root among them, are the directories the walk of Process enters
C31_SameDirectories ==
    (proc.state = "done" /\ proc.fault = NoFault) =>
       WatchedDirs(Reconfigure(config, 0).watched) =
          Entered(fs, config, gitignorer)

(***************************************************************************)
(* Further properties of the handlers (checked under Spec).                *)
(***************************************************************************)
\* the timer is reset to a full timeout and one more goroutine waits on it
Armed ==
    /\ debouncer' = [active |-> TRUE, when |-> now + DebounceTimeout]
    /\ waiting' = waiting + 1
    /\ triggered' = Append(triggered, now)

RECURSIVE MuAfter(_, _)
MuAfter(mu, ops) ==
    IF ops = <<>> \/ mu = "stuck" THEN mu
    ELSE IF Head(ops) = "Lock"
    THEN MuAfter(IF mu = "free" THEN "held" ELSE "stuck", Tail(ops))
    ELSE MuAfter("free", Tail(ops))

\* C34: on the exit path it takes, the handler of an event never locks s.mu
\* while holding it and leaves it free, and the loop is back at its select
C34_MutexReleased ==
    [][IsHandle =>
          /\ MuAfter("free", muOps(Head(Events), Route(Head(Events)))) = "free"
          /\ loop' = "running"]_vars

\* a reload has failed: handleConfigChange returned an error and the loop
\* goes on
C34_Witness ==
    /\ handled.route = "handleConfigChange"
    /\ err = "error"
    /\ reloading
    /\ loop = "running"

(***************************************************************************)
(* The output file inside the watched root (checked under SpecQuiet, where *)
(* the environment writes /r/f only).                                      *)
(***************************************************************************)
\* C35: there are no more regenerations than changes made from outside,
\* and handling the event of a regeneration's own write of the output file
\* leaves the timer as it was
C35_Quiescence ==
    /\ [](Len(generated) <= nOps)
    /\ [][(IsHandle /\ Head(Events).Name = Output) => UNCHANGED timerVars]_vars

(***************************************************************************)
(* The timer NewService creates already expired (checked under SpecTimed). *)
(***************************************************************************)
\* C36: no goroutine is woken and Generate is not called before a surviving
\* event has been handled; every call comes a full timeout or more after
\* the first such event, and that event alone leads to one call at most
C36_NoSpuriousFirst ==
    /\ NTrig = 0 => (woken = 0 /\ generated = <<>>)
    /\ NTrig >= 1 =>
          \A j \in 1..Len(generated) :
             generated[j] >= triggered[1] + DebounceTimeout
    /\ NTrig = 1 => Len(generated) + woken <= 1

\* the timer expired before the first event was handled, and that event
\* has led to one call of Generate, a timeout after it
C36_Witness ==
    /\ NTrig = 1
    /\ triggered[1] > 0
    /\ generated = <<triggered[1] + DebounceTimeout>>
    /\ waiting = 0
    /\ woken = 0

\* C37: once the last burst has settled and its expiry has been received,
\* no goroutine of triggerRegeneration is left waiting on the timer
C37_NoAccumulation ==
    (/\ NTrig >= 1
     /\ Settled(NTrig)
     /\ ~debouncer.active
     /\ debouncerC = 0) => waiting = 0

(***************************************************************************)
(* Changes of permissions (checked under SpecReload).                      *)
(***************************************************************************)
\* C38: handling an event that carries Chmod alone, on the configuration
\* file or on any other path, leaves the timer, the configuration, the
\* reloading flag and the watched set as they were
C38_ChmodOnly ==
    [][(IsHandle /\ Head(Events).Op = {"CHMOD"})
          => /\ err' = "nil"
             /\ UNCHANGED <<watched, watcher, config, reloading,
                            timerVars>>]_vars

\* a chmod of the configuration file, then one of /r/f that the policy
\* selects, have been handled and nothing is scheduled
C38_Witness ==
    /\ handled.Op = {"CHMOD"}
    /\ handled.Name = FileF
    /\ handled.route = "chmod"
    /\ nOps = 2
    /\ Events = <<>>
    /\ ~reloading
    /\ configPath = FileConfig
    /\ triggered = <<>>

====
